---- MODULE Spec2Model ----
(***************************************************************************)
(* Model of the SSE batch-of-four triangle container (Triangle4) and of    *)
(* intersectTriangle4 in src/shape/simd_triangle.h.                        *)
(*                                                                         *)
(* Lane values that the code keeps in floats are integers or exact         *)
(* rationals [n, d] here (d = 0 encodes +inf, -inf and NaN); 32-bit        *)
(* words (the lanes of the validity mask and of comparison results) are    *)
(* the sets of their set bit positions, so bitwise AND is intersection     *)
(* and _mm_movemask_ps reads bit 31.                                       *)
(***************************************************************************)
EXTENDS Integers, Sequences, FiniteSets, TLC

\* ---------------------------------------------------------------- bounds
\* Triangles 1..NumTris of the mesh can be pushed into the container.
NumTris == 2
\* Rays 1..NumRays can be shot at the container.
NumRays == 3
\* PushTriangle is called at most MaxPushes times in a run.
MaxPushes == 4
\* A fresh hit record carries no bound (+inf) or one of the finite upper
\* bounds 3, 6, ..., 3 * MaxBound.
MaxBound == 1

\* ------------------------------------------------------------- constants
\* The null back-reference of m_ori_pri.
nullptr == 0

Lanes == 0..3
Tris == 1..NumTris
RayIds == 1..NumRays

\* ------------------------------------------------------------ 32-bit words
Bits == 0..31
ZeroWord == {}
AllOnes == Bits

RECURSIVE Pow2(_)
Pow2(k) == IF k = 0 THEN 1 ELSE 2 * Pow2(k - 1)

\* The bit positions set in the non-negative integer v (v < 2^31).
BitsOfNat(v) == {i \in 0..30 : (v \div Pow2(i)) % 2 = 1}

\* The 24 most significant bits of the word w, from its highest set bit hi
\* down, as an integer.
Top24(w, hi) ==
    LET RECURSIVE acc(_, _)
        acc(k, v) == IF k > 23 THEN v
                     ELSE acc(k + 1, 2 * v + (IF (hi - k) \in w THEN 1 ELSE 0))
    IN acc(0, 0)

\* The IEEE-754 single that the implicit conversion unsigned int -> float
\* yields for the word w (round to nearest even), as its bit pattern.
UIntToFloatBits(w) ==
    IF w = ZeroWord THEN ZeroWord
    ELSE LET hi    == CHOOSE i \in w : \A j \in w : j <= i
             m     == Top24(w, hi)
             guard == (hi - 24) \in w
             rest  == \E j \in w : j < hi - 24
             up    == guard /\ (rest \/ m % 2 = 1)
             m2    == IF up THEN m + 1 ELSE m
             carry == m2 = Pow2(24)
             e     == IF carry THEN hi + 1 ELSE hi
             frac  == IF carry THEN 0 ELSE m2 - Pow2(23)
         IN BitsOfNat((e + 127) * Pow2(23) + frac)

\* Lane-wise comparison result: all ones where the comparison holds.
CmpWord(b) == IF b THEN AllOnes ELSE ZeroWord

MoveMaskEveryLane(m) == Lanes

\* _mm_movemask_ps: the lanes whose sign bit (bit 31) is set.
MoveMask(m) == {i \in Lanes : 31 \in m[i]}

\* ------------------------------------------------- float values as rationals
\* [n, d] with d >= 0 is n/d; d = 0 is +inf (n = 1), -inf (n = -1), NaN (n = 0).
Sign(x) == IF x > 0 THEN 1 ELSE IF x < 0 THEN -1 ELSE 0
Rat(n, d) == IF d > 0 THEN [n |-> n, d |-> d]
             ELSE IF d < 0 THEN [n |-> -n, d |-> -d]
             ELSE [n |-> Sign(n), d |-> 0]
Int2Rat(k) == [n |-> k, d |-> 1]
PosInf == [n |-> 1, d |-> 0]
IsNaN(x) == x.d = 0 /\ x.n = 0
\* Ordered comparisons: false when either side is NaN.
RatLt(x, y) == /\ ~IsNaN(x) /\ ~IsNaN(y)
               /\ IF x.d = 0 /\ y.d = 0 THEN x.n < y.n ELSE x.n * y.d < y.n * x.d
RatLe(x, y) == /\ ~IsNaN(x) /\ ~IsNaN(y)
               /\ IF x.d = 0 /\ y.d = 0 THEN x.n <= y.n ELSE x.n * y.d <= y.n * x.d
RatEq(x, y) == RatLe(x, y) /\ RatLe(y, x)

\* ----------------------------------------------------------------- the mesh
\* Vertex positions of the mesh's vertex buffer (m_memory->m_vertices).
m_vertices ==
    << <<-1, -1, 0>>, <<1, -1, 0>>, <<0, 1, 0>>,
       <<-2, -2, 0>>, <<2, -2, 0>>, <<0, 2, 0>>,
       <<-1, -1, 1>>, <<1, -1, 1>>, <<0, 1, 1>>,
       <<-1, -1, -1>>, <<1, -1, -1>>, <<0, 1, -1>> >>

\* Vertex indices of each triangle (GetIndices().m_id): triangle 1 is the
\* triangle of the end-to-end scenarios, 2 has two coincident vertices (zero
\* area), 3 is coplanar with 1 and contains it, 4 and 5 are copies of 1 at
\* z = 1 and z = -1.
m_id ==
    << <<1, 2, 3>>, <<1, 1, 2>>, <<4, 5, 6>>, <<7, 8, 9>>, <<10, 11, 12>> >>

\* mem->m_vertices[ triangle->GetIndices().m_id[k] ].m_position, k = 0..2.
Position(tri, k) == m_vertices[m_id[tri][k + 1]]

Sub(a, b) == <<a[1] - b[1], a[2] - b[2], a[3] - b[3]>>
Cross(a, b) == <<a[2] * b[3] - a[3] * b[2],
                 a[3] * b[1] - a[1] * b[3],
                 a[1] * b[2] - a[2] * b[1]>>

\* A triangle has zero area iff the cross product of two of its edges is 0.
ZeroArea(tri) ==
    Cross(Sub(Position(tri, 1), Position(tri, 0)),
          Sub(Position(tri, 2), Position(tri, 0))) = <<0, 0, 0>>

\* ------------------------------------------------------------------ the rays
Abs(x) == IF x < 0 THEN -x ELSE x

ExactDiv(a, b) == CHOOSE q \in -Abs(a)..Abs(a) : q * b = a

\* The per-ray frame: the axis of the largest direction component becomes
\* the local y axis; the shear coefficients move the direction onto it.
\* The directions used here make the divisions exact.
RayPrepare(ori, dir, fMin, fMax) ==
    LET ly == CHOOSE a \in 0..2 :
                 /\ \A b \in 0..2 : Abs(dir[a + 1]) >= Abs(dir[b + 1])
                 /\ \A b \in 0..2 : Abs(dir[b + 1]) = Abs(dir[a + 1]) => a <= b
        lz == (ly + 1) % 3
        lx == (ly + 2) % 3
    IN [m_Ori |-> ori, m_Dir |-> dir, m_fMin |-> fMin, m_fMax |-> fMax,
        m_local_x |-> lx, m_local_y |-> ly, m_local_z |-> lz,
        m_sse_scale_x |-> ExactDiv(-dir[lx + 1], dir[ly + 1]),
        m_sse_scale_y |-> ExactDiv(1, dir[ly + 1]),
        m_sse_scale_z |-> ExactDiv(-dir[lz + 1], dir[ly + 1])]

RayOf(r) ==
    CASE r = 1 -> RayPrepare(<<0, 0, -5>>, <<0, 0, 1>>, 0, 8)
      [] r = 2 -> RayPrepare(<<-1, -1, -5>>, <<0, 0, 1>>, 0, 8)
      [] r = 3 -> RayPrepare(<<0, 0, -5>>, <<0, 0, 1>>, 0, 4)
      [] r = 4 -> RayPrepare(<<-5, 0, 0>>, <<1, 0, 0>>, 0, 8)
      [] OTHER -> RayPrepare(<<0, 0, 5>>, <<0, 0, -1>>, 0, 8)

\* The table of rays; ray r is Rays[r].
Rays == <<RayOf(1), RayOf(2), RayOf(3), RayOf(4), RayOf(5)>>

\* ---------------------------------------------------------------- the state
VARIABLES
    m_p0, m_p1, m_p2,   \* lane -> packed position of vertex 0, 1, 2 (x, y, z)
    m_mask,             \* lane -> 32-bit word of the validity mask
    m_ori_pri,          \* lane -> triangle, or nullptr
    hit,                \* the caller's hit record (Intersection)
    last,               \* the call the caller has not yet returned from:
                        \* the operation, its arguments and its result
    pushes              \* the number of PushTriangle calls so far

vars == <<m_p0, m_p1, m_p2, m_mask, m_ori_pri, hit, last, pushes>>

\* Values a read of uninitialised memory may yield: for a packed vertex
\* triple, zeros or the stale vertices of triangle 1; for a mask lane, any
\* of the three words the program itself produces.
GarbageVerts == {<<<<0, 0, 0>>, <<0, 0, 0>>, <<0, 0, 0>>>>,
                 <<Position(1, 0), Position(1, 1), Position(1, 2)>>}
GarbageWords == {ZeroWord, AllOnes, UIntToFloatBits(AllOnes)}

\* ------------------------------------------------------------ the hit record
\* An attribute interpolated over triangle tri with weights (1-u-v, u, v).
Interp(attr, tri, u, v) == [attr |-> attr, tri |-> tri, u |-> u, v |-> v]
NoAttr == Interp("none", nullptr, Int2Rat(0), Int2Rat(0))
\* Normalize(v): the unit vector along v (its direction is kept, not its length).
Normalize(v) == [unit |-> v]

\* A hit record as its creator leaves it, with upper bound b in t.
FreshHit(b) ==
    [t |-> b,
     intersect |-> <<Int2Rat(0), Int2Rat(0), Int2Rat(0)>>,
     normal |-> NoAttr, gnormal |-> Normalize(<<0, 0, 0>>), tangent |-> NoAttr,
     view |-> <<0, 0, 0>>, u |-> NoAttr, v |-> NoAttr]

HitBounds == {PosInf} \cup {Int2Rat(3 * k) : k \in 1..MaxBound}

\* No call is in progress.  Of a call, last keeps: op, the operation; ret,
\* what it returned; for PushTriangle the lane stored into and the
\* triangle; for intersectTriangle4 the ray, whether a hit record was
\* passed, the hit record before the call, the stage at which the call
\* returned, the lanes set in c after the inside test, and res_i.
NoCall == [op |-> "none", ret |-> "none", ray |-> 0, hasRet |-> FALSE,
           pre |-> FreshHit(PosInf), stage |-> "none", inside |-> {},
           res_i |-> -1, lane |-> -1, tri |-> nullptr]

\* ------------------------------------------------------- Triangle4 operations
\* The lane PushTriangle stores into: the first of lanes 0..2 whose
\* back-reference is null, lane 3 otherwise.
PushLaneSkipsLane1(ori) ==
    IF ori[0] = nullptr THEN 0
    ELSE IF ori[2] = nullptr THEN 2
    ELSE 3

PushLane(ori) ==
    IF ori[0] = nullptr THEN 0
    ELSE IF ori[1] = nullptr THEN 1
    ELSE IF ori[2] = nullptr THEN 2
    ELSE 3

\* The value PushTriangle returns after storing into lane i.
PushReturn(i) == i = 3

PushTriangle(tri) ==
    /\ last.op = "none"
    /\ pushes < MaxPushes
    /\ pushes' = pushes + 1
    /\ LET i == PushLane(m_ori_pri)
       IN /\ m_ori_pri' = [m_ori_pri EXCEPT ![i] = tri]
          /\ last' = [NoCall EXCEPT !.op = "PushTriangle",
                                    !.ret = IF PushReturn(i) THEN "true" ELSE "false",
                                    !.lane = i, !.tri = tri]
    /\ UNCHANGED <<m_p0, m_p1, m_p2, m_mask, hit>>

\* The lanes PackData's loop visits: it stops at the first null back-reference.
PackedLanes(ori) == {i \in Lanes : \A j \in 0..i : ori[j] # nullptr}

\* The unsigned int PackData assigns to mask[i] for a visited lane.
PackMaskWord == AllOnes

\* The word of m_mask's lane i after PackData: the local unsigned int
\* mask[i] handed to _mm_set_ps, which takes floats.
MaskLaneSet == UIntToFloatBits(PackMaskWord)
MaskLaneClear == UIntToFloatBits(ZeroWord)
PackedMask(ori, i) ==
    IF i \in PackedLanes(ori) THEN MaskLaneSet ELSE MaskLaneClear

\* The local arrays p0_x .. p2_z are not initialised: the lanes the loop
\* does not visit load whatever they hold (the vertices g).
PackData ==
    /\ last.op = "none"
    /\ \E g \in IF PackedLanes(m_ori_pri) = Lanes
                 THEN {CHOOSE x \in GarbageVerts : TRUE} ELSE GarbageVerts :
          LET occ == PackedLanes(m_ori_pri)
              v(i, k) == IF i \in occ THEN Position(m_ori_pri[i], k) ELSE g[k + 1]
          IN /\ m_p0' = [i \in Lanes |-> v(i, 0)]
             /\ m_p1' = [i \in Lanes |-> v(i, 1)]
             /\ m_p2' = [i \in Lanes |-> v(i, 2)]
    /\ m_mask' = [i \in Lanes |-> PackedMask(m_ori_pri, i)]
    /\ last' = [NoCall EXCEPT !.op = "PackData"]
    /\ UNCHANGED <<m_ori_pri, hit, pushes>>

\* Reset clears the four back-references and nothing else.
ResetPri(ori) == [i \in Lanes |-> nullptr]

Reset ==
    /\ last.op = "none"
    /\ m_ori_pri' = ResetPri(m_ori_pri)
    /\ last' = [NoCall EXCEPT !.op = "Reset"]
    /\ UNCHANGED <<m_p0, m_p1, m_p2, m_mask, hit, pushes>>

\* The caller makes a fresh hit record with upper bound b.
NewHit(b) ==
    /\ last.op = "none"
    /\ hit' = FreshHit(b)
    /\ last' = [NoCall EXCEPT !.op = "NewHit"]
    /\ UNCHANGED <<m_p0, m_p1, m_p2, m_mask, m_ori_pri, pushes>>

\* The caller takes the result of the last call and goes on; a crashed
\* call never returns.
Return ==
    /\ last.op # "none"
    /\ last.ret # "crash"
    /\ last' = NoCall
    /\ UNCHANGED <<m_p0, m_p1, m_p2, m_mask, m_ori_pri, hit, pushes>>

\* ---------------------------------------------------------- intersectTriangle4
\* step 0: translate a vertex to the ray's origin.
Translate(p, ray) == Sub(p, ray.m_Ori)
\* step 1: permute the coordinates to the ray's local axes.
Local(p, ray) == [x |-> p[ray.m_local_x + 1],
                  y |-> p[ray.m_local_y + 1],
                  z |-> p[ray.m_local_z + 1]]
\* step 2: shear x and z so that the direction points along local y.
Shear(p, ray) == [x |-> p.x + p.y * ray.m_sse_scale_x,
                  y |-> p.y,
                  z |-> p.z + p.y * ray.m_sse_scale_z]

\* The translated vertex that p2_x, p2_y, p2_z are picked from: the code
\* indexes p1 there.
PickP2(p1, p2) == p1

LaneP0(ray, i) == Shear(Local(Translate(m_p0[i], ray), ray), ray)
LaneP1(ray, i) == Shear(Local(Translate(m_p1[i], ray), ray), ray)
LaneP2(ray, i) ==
    Shear(Local(PickP2(Translate(m_p1[i], ray), Translate(m_p2[i], ray)), ray), ray)

\* An edge function of two sheared vertices.
EdgeFn(a, b) == a.x * b.z - a.z * b.x

\* The floats of one lane before the reciprocal: the sheared local y of the
\* three vertices, the edge functions e0, e1, e2 and det, their sum.
LaneRec(y0, y1, y2, e0, e1, e2) ==
    [y0 |-> y0, y1 |-> y1, y2 |-> y2,
     e0 |-> e0, e1 |-> e1, e2 |-> e2, det |-> e0 + (e1 + e2)]
LaneOf(p0, p1, p2) ==
    LaneRec(p0.y, p1.y, p2.y, EdgeFn(p1, p2), EdgeFn(p2, p0), EdgeFn(p0, p1))
Lane(ray, i) == LaneOf(LaneP0(ray, i), LaneP1(ray, i), LaneP2(ray, i))

\* t = ( e0 + p0_y + e1 * p1_y + e2 * p2_y ) * rcp_det, where each p_y has
\* had m_sse_scale_y added; the reciprocal is taken as exact.
LaneT(ray, l) ==
    Rat(l.e0 + (l.y0 + ray.m_sse_scale_y)
             + l.e1 * (l.y1 + ray.m_sse_scale_y)
             + l.e2 * (l.y2 + ray.m_sse_scale_y),
        l.det)

\* c0: all three edge functions >= 0; c1: all three <= 0.
C0(l) == CmpWord(l.e0 >= 0) \cap CmpWord(l.e1 >= 0) \cap CmpWord(l.e2 >= 0)
C1(l) == CmpWord(l.e0 =< 0) \cap CmpWord(l.e1 =< 0) \cap CmpWord(l.e2 =< 0)
\* How c0 and c1 are combined: the code ANDs them.
CombineC(c0, c1) == c0 \cap c1

\* One lane of mask after the inside test.
InsideLane(w, l) == w \cap CombineC(C0(l), C1(l))
\* One lane of mask after the determinant test.
DetLane(w, l) == w \cap CmpWord(l.det # 0)
\* One lane of mask after the test against the ray's interval.
IntervalLane(w, t, ray) ==
    w \cap CmpWord(RatLt(Int2Rat(ray.m_fMin), t))
      \cap CmpWord(RatLt(t, Int2Rat(ray.m_fMax)))
\* One lane of mask after the test against the hit record's t.
BoundLane(w, t, h) ==
    w \cap CmpWord(RatLt(Int2Rat(0), t)) \cap CmpWord(RatLe(t, h.t))

NoLaneLeftInverted(c) == c # {}

\* if( 0 == c ) return false;
NoLaneLeft(c) == c = {}

\* One step of the scalar reduction: if( b_mask[i] && res_t > f_t[i] ).
ResolveStep(acc, i, b_mask, f_t) ==
    IF b_mask[i] # ZeroWord /\ RatLt(f_t[i], acc.res_t)
    THEN [res_i |-> i, res_t |-> f_t[i]]
    ELSE acc

\* The reduction over lanes 0, 1, 2, 3, from res_i = -1, res_t = -1.0f.
Resolve(b_mask, f_t) ==
    ResolveStep(
        ResolveStep(
            ResolveStep(
                ResolveStep([res_i |-> -1, res_t |-> Int2Rat(-1)], 0, b_mask, f_t),
                1, b_mask, f_t),
            2, b_mask, f_t),
        3, b_mask, f_t)

\* ray(t): the point at parameter t.
RayAt(ray, t) ==
    [k \in 1..3 |-> Rat(ray.m_Ori[k] * t.d + ray.m_Dir[k] * t.n, t.d)]

\* The stores into the hit record for the winner's triangle tri, with u and
\* v of its lane.
StoreHit(ray, tri, res_t, u, v) ==
    [t |-> res_t,
     intersect |-> RayAt(ray, res_t),
     gnormal |-> Normalize(Cross(Sub(Position(tri, 2), Position(tri, 0)),
                                 Sub(Position(tri, 1), Position(tri, 0)))),
     normal |-> Interp("m_normal", tri, u, v),
     tangent |-> Interp("m_tangent", tri, u, v),
     view |-> <<-ray.m_Dir[1], -ray.m_Dir[2], -ray.m_Dir[3]>>,
     u |-> Interp("m_texCoord.x", tri, u, v),
     v |-> Interp("m_texCoord.y", tri, u, v)]

\* What a call yields: the value returned ("crash": it does not return),
\* the hit record after it, the return statement reached, the lanes of c
\* after the inside test, and res_i.
Result(ret, h, stage, inside, res_i) ==
    [ret |-> ret, hit |-> h, stage |-> stage, inside |-> inside,
     res_i |-> res_i]

\* What the reads at index -1 can yield: a back-reference (null or not) and
\* the floats of some lane.
OobReads == [tri : Tris \cup {nullptr}, lane : Lanes]

\* The rest of the resolve phase for the selected lane res: the reads at
\* res_i and the stores.  Index -1 is outside the arrays, so those reads
\* yield any of OobReads; a null back-reference is dereferenced.
ResolveLane(a, L, c1, res) ==
    {IF rd.tri = nullptr
     THEN Result("crash", a.h, "resolve", c1, res.res_i)
     ELSE Result("true",
                 StoreHit(a.ray, rd.tri, res.res_t,
                          Rat(L[rd.lane].e1, L[rd.lane].det),
                          Rat(L[rd.lane].e2, L[rd.lane].det)),
                 "resolve", c1, res.res_i)
       : rd \in IF res.res_i \in Lanes
                THEN {[tri |-> m_ori_pri[res.res_i], lane |-> res.res_i]}
                ELSE OobReads}

\* The stages of intersectTriangle4 in turn, each with the values the code
\* has computed so far: a, the arguments; L, the floats of the four lanes;
\* c1, the lanes of c after the inside test; m, the mask after the stage;
\* t, the lanes of t.  Each yields the set of possible results.
BoundStage(a, L, c1, m, t) ==
    IF NoLaneLeft(MoveMask(m))
    THEN {Result("false", a.h, "bound", c1, -1)}
    ELSE ResolveLane(a, L, c1, Resolve(m, t))

IntervalStage(a, L, c1, m, t) ==
    IF NoLaneLeft(MoveMask(m))
    THEN {Result("false", a.h, "interval", c1, -1)}
    ELSE IF ~a.hasRet
    THEN {Result("true", a.h, "null", c1, -1)}
    ELSE BoundStage(a, L, c1, [i \in Lanes |-> BoundLane(m[i], t[i], a.h)], t)

DetStage(a, L, c1, m) ==
    IF NoLaneLeft(MoveMask(m))
    THEN {Result("false", a.h, "det", c1, -1)}
    ELSE IntervalStage(a, L, c1,
                       [i \in Lanes |->
                           IntervalLane(m[i], LaneT(a.ray, L[i]), a.ray)],
                       [i \in Lanes |-> LaneT(a.ray, L[i])])

InsideStage(a, L, m) ==
    IF NoLaneLeft(MoveMask(m))
    THEN {Result("false", a.h, "inside", MoveMask(m), -1)}
    ELSE DetStage(a, L, MoveMask(m), [i \in Lanes |-> DetLane(m[i], L[i])])

LaneStage(a, L) ==
    InsideStage(a, L, [i \in Lanes |-> InsideLane(m_mask[i], L[i])])

IntersectTriangle4StoresViewFirst(ray, hasRet, h) ==
    LaneStage([ray |-> ray, hasRet |-> hasRet,
               h |-> IF hasRet
                     THEN [h EXCEPT !.view = <<-ray.m_Dir[1], -ray.m_Dir[2],
                                                -ray.m_Dir[3]>>]
                     ELSE h],
              [i \in Lanes |-> Lane(ray, i)])

\* intersectTriangle4( ray , tri4 , ret ): hasRet is ret != nullptr and h is
\* *ret.  The set of possible results.
IntersectTriangle4(ray, hasRet, h) ==
    LaneStage([ray |-> ray, hasRet |-> hasRet, h |-> h],
              [i \in Lanes |-> Lane(ray, i)])

Intersect(r, hasRet) ==
    /\ last.op = "none"
    /\ \E res \in IntersectTriangle4(Rays[r], hasRet, hit) :
          /\ hit' = res.hit
          /\ last' = [NoCall EXCEPT !.op = "intersectTriangle4",
                                    !.ret = res.ret, !.ray = r,
                                    !.hasRet = hasRet, !.pre = hit,
                                    !.stage = res.stage,
                                    !.inside = res.inside,
                                    !.res_i = res.res_i]
    /\ UNCHANGED <<m_p0, m_p1, m_p2, m_mask, m_ori_pri, pushes>>

\* ------------------------------------------------------------ specification
\* A constructed Triangle4: the back-references are null, the coordinates
\* and the mask are not initialised.
Init ==
    /\ m_ori_pri = [i \in Lanes |-> nullptr]
    /\ \E g \in GarbageVerts :
          /\ m_p0 = [i \in Lanes |-> g[1]]
          /\ m_p1 = [i \in Lanes |-> g[2]]
          /\ m_p2 = [i \in Lanes |-> g[3]]
    /\ \E w \in GarbageWords : m_mask = [i \in Lanes |-> w]
    /\ hit = FreshHit(PosInf)
    /\ last = NoCall
    /\ pushes = 0

Next ==
    \/ \E tri \in Tris : PushTriangle(tri)
    \/ PackData
    \/ Reset
    \/ \E b \in HitBounds : NewHit(b)
    \/ \E r \in RayIds, hasRet \in BOOLEAN : Intersect(r, hasRet)
    \/ Return

Spec == Init /\ [][Next]_vars

TypeOK ==
    /\ m_ori_pri \in [Lanes -> Tris \cup {nullptr}]
    /\ m_mask \in [Lanes -> GarbageWords]
    /\ last.ret \in {"none", "true", "false", "crash"}
    /\ pushes \in 0..MaxPushes

\* ------------------------------------------------- the reference scalar test
\* The scalar intersector of one ray and one triangle: the edge functions
\* of the three sheared vertices, their sum, and t.
ScalarLane(ray, p0, p1, p2) ==
    LaneRec(p0.y * ray.m_sse_scale_y, p1.y * ray.m_sse_scale_y,
            p2.y * ray.m_sse_scale_y,
            EdgeFn(p1, p2), EdgeFn(p2, p0), EdgeFn(p0, p1))
ScalarVertex(ray, tri, k) == Shear(Local(Translate(Position(tri, k), ray), ray), ray)
ScalarOf(ray, tri) ==
    ScalarLane(ray, ScalarVertex(ray, tri, 0), ScalarVertex(ray, tri, 1),
               ScalarVertex(ray, tri, 2))
\* t = ( e0 * p0_y + e1 * p1_y + e2 * p2_y ) / det.
ScalarT(l) == Rat(l.e0 * l.y0 + l.e1 * l.y1 + l.e2 * l.y2, l.det)
\* Inside: the three edge functions are all >= 0 or all =< 0.
ScalarInside(l) ==
    \/ l.e0 >= 0 /\ l.e1 >= 0 /\ l.e2 >= 0
    \/ l.e0 =< 0 /\ l.e1 =< 0 /\ l.e2 =< 0
\* Accepted: inside, a non-zero determinant, t inside the ray's interval
\* and closer than the bound.
ScalarAccepts(ray, l, bound) ==
    /\ ScalarInside(l)
    /\ l.det # 0
    /\ RatLt(Int2Rat(ray.m_fMin), ScalarT(l))
    /\ RatLt(ScalarT(l), Int2Rat(ray.m_fMax))
    /\ RatLt(ScalarT(l), bound)
\* Intersect( ray , triangle , hit ) with hit's t = bound.
Intersect1(ray, tri, bound) ==
    [hit |-> ScalarAccepts(ray, ScalarOf(ray, tri), bound),
     t |-> ScalarT(ScalarOf(ray, tri))]

\* The scalar test once per occupied lane: the accepted lanes, and among
\* them the one of least t, the lowest lane on a tie.
AcceptedLanes(ray, ori, bound) ==
    {i \in Lanes : ori[i] # nullptr /\ Intersect1(ray, ori[i], bound).hit}
ClosestOf(ray, ori, acc) ==
    CHOOSE i \in acc :
        \A j \in acc :
            \/ RatLt(Intersect1(ray, ori[i], PosInf).t, Intersect1(ray, ori[j], PosInf).t)
            \/ /\ RatEq(Intersect1(ray, ori[i], PosInf).t, Intersect1(ray, ori[j], PosInf).t)
               /\ i <= j

\* ------------------------------------------------------------------- claims
\* The lanes that hold a triangle.
Occupied == {i \in Lanes : m_ori_pri[i] # nullptr}

\* The container is packed: PackData has run on the back-references it holds.
Packed ==
    \A i \in Lanes :
        /\ m_mask[i] = PackedMask(m_ori_pri, i)
        /\ i \in Occupied =>
              /\ m_p0[i] = Position(m_ori_pri[i], 0)
              /\ m_p1[i] = Position(m_ori_pri[i], 1)
              /\ m_p2[i] = Position(m_ori_pri[i], 2)

\* A call of intersectTriangle4 has just returned (or crashed).
Called == last.op = "intersectTriangle4"

\* C1: on a packed batch and with a hit record, intersectTriangle4 agrees
\* with the scalar test applied once per occupied lane with the same ray and
\* the same incoming bound: it returns true exactly when some lane is
\* accepted, and then selects the accepted lane of least t and stores that t.
C1_AgreesWithScalar ==
    (Called /\ last.hasRet /\ Packed) =>
        /\ (last.ret = "true") <=>
              (AcceptedLanes(Rays[last.ray], m_ori_pri, last.pre.t) # {})
        /\ (AcceptedLanes(Rays[last.ray], m_ori_pri, last.pre.t) # {}) =>
              /\ last.res_i =
                    ClosestOf(Rays[last.ray], m_ori_pri,
                              AcceptedLanes(Rays[last.ray], m_ori_pri, last.pre.t))
              /\ hit.t = Intersect1(Rays[last.ray], m_ori_pri[last.res_i], PosInf).t

\* C3: whenever intersectTriangle4 returns false, every field of the hit
\* record has the value it had before the call.
C3_FalseLeavesHit ==
    (Called /\ last.ret = "false") => hit = last.pre

\* C3's case: a call with a hit record that carries a finite bound, on a
\* packed batch holding triangle 1, with the ray of scenario 1, returned false.
C3_Witness ==
    /\ Called /\ last.ret = "false" /\ last.hasRet
    /\ last.ray = 1 /\ last.pre.t # PosInf
    /\ Packed /\ m_ori_pri[0] = 1

\* C5: against a container whose back-references are all null (as Reset
\* leaves them), intersectTriangle4 returns false, for every ray and with or
\* without a hit record.
C5_ResetRejects ==
    (Called /\ Occupied = {}) => last.ret = "false"

\* C5's case: the container was packed with triangle 1 alone in lane 0,
\* then Reset, and the ray of scenario 1, which passes through triangle 1,
\* was shot at it.
C5_Witness ==
    /\ Called /\ Occupied = {} /\ pushes > 0
    /\ last.ray = 1 /\ last.ret = "false"
    /\ m_mask[0] = MaskLaneSet /\ m_mask[1] = MaskLaneClear
    /\ m_p0[0] = Position(1, 0) /\ m_p1[0] = Position(1, 1)
    /\ m_p2[0] = Position(1, 2)

\* C6: for each lane, the back-reference is non-null if and only if the lane
\* of the validity mask is all ones; stated of the states PackData has just
\* left, where the mask has been written from the back-references.
C6_MaskIffBackRef ==
    last.op = "PackData" =>
        \A i \in Lanes : (m_ori_pri[i] # nullptr) <=> (m_mask[i] = AllOnes)

\* C7: on a container that is not full, PushTriangle stores the triangle in
\* the lowest lane whose back-reference is null, which is lane k-1 for the
\* k-th triangle held, leaves the other back-references unchanged, and
\* returns true exactly when all four lanes are occupied afterwards.
C7_PushFillsFirstFree ==
    [][(last'.op = "PushTriangle" /\ last.op = "none" /\ Occupied # Lanes) =>
          /\ \A j \in Lanes : j < last'.lane => m_ori_pri[j] # nullptr
          /\ m_ori_pri[last'.lane] = nullptr
          /\ last'.lane = Cardinality(Occupied)
          /\ m_ori_pri' = [m_ori_pri EXCEPT ![last'.lane] = last'.tri]
          /\ (last'.ret = "true") <=> (\A j \in Lanes : m_ori_pri'[j] # nullptr)
          /\ (last'.ret = "true") <=> (last'.lane = 3)]_vars

\* C7's case: the fourth push into an empty container has returned true.
C7_Witness ==
    /\ last.op = "PushTriangle" /\ last.lane = 3 /\ last.ret = "true"
    /\ Occupied = Lanes /\ pushes = 4

\* C8: on a packed batch whose occupied lanes all hold zero-area triangles
\* intersectTriangle4 returns false, and the lane it selects on any packed
\* batch never holds a zero-area triangle.
C8_ZeroAreaRejected ==
    (Called /\ Packed) =>
        /\ (\A i \in Occupied : ZeroArea(m_ori_pri[i])) => last.ret = "false"
        /\ (last.ret = "true" /\ last.res_i \in Occupied) =>
              ~ZeroArea(m_ori_pri[last.res_i])

\* C8's case: a packed batch of two zero-area triangles, shot at with the
\* ray through their coincident vertices.
C8_Witness ==
    /\ Called /\ Packed /\ last.ray = 2 /\ last.ret = "false"
    /\ m_ori_pri[0] = 2 /\ m_ori_pri[1] = 2 /\ m_ori_pri[2] = nullptr
    /\ ZeroArea(2)

\* C9: with the ray of scenario 1 and triangle 1 pushed alone into lane 0
\* and packed, intersectTriangle4 with a hit record whose t is unbounded
\* returns true, selects lane 0 and sets t to 5.
C9_Scenario3 ==
    (/\ Called /\ last.hasRet /\ last.ray = 1 /\ last.pre.t = PosInf
     /\ Packed /\ Occupied = {0} /\ m_ori_pri[0] = 1) =>
        /\ last.ret = "true"
        /\ last.res_i = 0
        /\ hit.t = Int2Rat(5)

\* The edge functions of lane i's three packed vertices, each translated,
\* permuted and sheared.
EdgesOfLane(ray, i) ==
    LaneOf(LaneP0(ray, i), LaneP1(ray, i),
           Shear(Local(Translate(m_p2[i], ray), ray), ray))
\* e0, e1, e2 are all >= 0 or all =< 0.
EitherWinding(l) ==
    \/ l.e0 >= 0 /\ l.e1 >= 0 /\ l.e2 >= 0
    \/ l.e0 =< 0 /\ l.e1 =< 0 /\ l.e2 =< 0

\* C10: on a packed batch, an occupied lane passes the inside stage if and
\* only if the edge functions of its triangle's three sheared vertices are
\* all >= 0 or all =< 0.
C10_InsideEitherWinding ==
    (Called /\ Packed) =>
        \A i \in Occupied :
            (i \in last.inside) <=> EitherWinding(EdgesOfLane(Rays[last.ray], i))

\* A lane with the floats l passes the three stages that need no hit
\* record: the inside test under either winding, a non-zero determinant,
\* and t strictly inside the ray's interval.
PassesLane(ray, l) ==
    /\ EitherWinding(l)
    /\ l.det # 0
    /\ RatLt(Int2Rat(ray.m_fMin), LaneT(ray, l))
    /\ RatLt(LaneT(ray, l), Int2Rat(ray.m_fMax))

\* C11: called without a hit record on a packed batch, intersectTriangle4
\* returns true if and only if some occupied lane passes the inside test,
\* has a non-zero determinant and has t strictly inside (t_min, t_max); the
\* caller's hit record is left as it was.
C11_NullHitExistence ==
    (Called /\ ~last.hasRet /\ Packed) =>
        /\ (last.ret = "true") <=>
              (\E i \in Occupied : PassesLane(Rays[last.ray],
                                              EdgesOfLane(Rays[last.ray], i)))
        /\ hit = last.pre

====
